---- MODULE Spec2Model ----
(***************************************************************************)
(* A model of oeis-probe (src/src/oeis_probe/core.py, cli.py): the term    *)
(* parser, the subsequence matcher, the hit ranker, the result merger, the *)
(* mismatch explainer, the two source adapters and the probe's control     *)
(* flow.  Pure functions are operators computed the way the code computes  *)
(* them; each specification below draws their inputs from bounded sets.    *)
(***************************************************************************)
EXTENDS Integers, Sequences, FiniteSets, TLC

VARIABLES
    phase,      \* position of the run: which step has been taken
    terms,      \* the query (parse_terms' result; the matcher's needle)
    hay,        \* best_subsequence_match's haystack
    match,      \* best_subsequence_match's result <<match_len, match_at>>
    hits,       \* sort_hits' argument
    rank,       \* the rank policy, "strict" or "prefer-early"
    ranked,     \* sort_hits(hits, rank)
    reranked,   \* sort_hits(ranked, rank)
    offline_hits,   \* main's offline_hits
    online_hits,    \* main's online_hits
    merged,     \* main's dict merged, its values in insertion order
    hit,        \* mismatch_details' hit
    details,    \* mismatch_details' result
    text,       \* parse_terms' argument, a sequence of characters
    err,        \* the message of the ValueError parse_terms raised, "" if none
    src,        \* the integers typed into text so far
    shape,      \* "terms" while text is decimal forms and separators only
    payload,    \* the JSON payload handed to hits_from_online_json
    corpus,     \* the lines of the stripped file, in file order
    max_hits,   \* --max-hits
    max_scan,   \* --offline-max-scan, an Optional
    no_online,          \* --no-online
    relax_online,       \* --relax-online
    relax_min_terms,    \* --relax-min-terms, as given
    max_query_terms,    \* --max-query-terms
    qlen,       \* _online_probe_with_optional_relax's qlen
    attempts,   \* the online searches made so far, one record each
    online_err, \* main's online_err, an Optional
    min_match_len,      \* --min-match-len, as given
    filtered,   \* main's filtered
    merged_hits,        \* main's merged_hits
    warning,    \* the [warn] line main printed, an Optional
    exit_code,  \* what main returned, an Optional
    fetch_arg,  \* the a_number handed to oeis_fetch_by_id_online
    a_number,   \* oeis_fetch_by_id_online's a_number after line 185
    cache,      \* the cache for the lookup's key: "none", "empty" or "fresh"
    io_log,     \* the cache reads, requests and cache writes made, in order
    scanned     \* oeis_search_offline_stripped's scanned, in the runs of SpecOffline

matchVars == <<hay, match>>
sortVars == <<hits, ranked, reranked>>
mergeVars == <<offline_hits, online_hits, merged>>
explainVars == <<hit, details>>
parseVars == <<text, err, src, shape>>
adapterVars == <<payload, corpus, max_hits, max_scan>>
probeVars == <<no_online, relax_online, relax_min_terms, max_query_terms, qlen,
               attempts, online_err, min_match_len, filtered, merged_hits,
               warning, exit_code>>
fetchVars == <<fetch_arg, a_number, cache, io_log>>
vars == <<phase, terms, rank, matchVars, sortVars, mergeVars, explainVars, parseVars,
          adapterVars, probeVars, fetchVars, scanned>>

(***************************************************************************)
(* Bounds of the model.                                                    *)
(***************************************************************************)
MaxVal == 2         \* terms are drawn from 1..MaxVal
MaxLen == 3         \* longest haystack and needle of the matcher runs
MaxSortLen == 3     \* longest hit list handed to sort_hits on its own
MaxMergeLen == 2    \* longest hit list handed to the merge step on its own
MaxData == 3        \* longest data_terms of a hit handed to mismatch_details
MaxText == 8        \* longest text typed as terms and separators
MaxFreeText == 4    \* longest text typed character by character
MaxQuery == 2       \* longest query handed to an adapter on its own
MaxDataToks == 3    \* most comma-separated pieces in a data field or a line
MaxProbeQuery == 3  \* longest query of a probe run
MaxFloorArg == 2    \* largest --relax-min-terms of a probe run
MaxCorpus == 3      \* most lines of a corpus scanned on its own
MaxIdBody == 7      \* most characters after the first of a looked-up identifier
DataCap == 2        \* the cap on data_terms, 400 in the code (core.py:282, 383),
                    \* scaled down so that the bounded data reaches it

(***************************************************************************)
(* Helpers: Python's Optional[int], min, max, bounded sequences.           *)
(***************************************************************************)
None == <<>>
Some(i) == <<i>>

Min2(a, b) == IF a <= b THEN a ELSE b
Max2(a, b) == IF a >= b THEN a ELSE b

SeqsUpTo(S, n) == UNION {[1..m -> S] : m \in 0..n}

SetMax(S) == CHOOSE x \in S : \A y \in S : y <= x
SetMin(S) == CHOOSE x \in S : \A y \in S : x <= y

Vals == 1..MaxVal

(***************************************************************************)
(* Text.  A str is a sequence of one-character strings; " " stands for any *)
(* whitespace character.                                                   *)
(***************************************************************************)
DigitChars == <<"0", "1", "2", "3", "4", "5", "6", "7", "8", "9">>
IsDigit(c) == \E i \in 1..10 : DigitChars[i] = c
DigitVal(c) == (CHOOSE i \in 1..10 : DigitChars[i] = c) - 1
IsSpace(c) == c = " "

\* str(n) for n >= 0
RECURSIVE NatToDecimal(_)
NatToDecimal(n) ==
    IF n < 10 THEN <<DigitChars[n + 1]>>
    ELSE NatToDecimal(n \div 10) \o <<DigitChars[(n % 10) + 1]>>

\* str(x), core.py:72 and 362
ToDecimal(n) == IF n < 0 THEN <<"-">> \o NatToDecimal(-n) ELSE NatToDecimal(n)

\* str.lstrip, str.rstrip, str.strip
RECURSIVE LStrip(_)
LStrip(s) == IF s # <<>> /\ IsSpace(s[1]) THEN LStrip(Tail(s)) ELSE s
RECURSIVE RStrip(_)
RStrip(s) ==
    IF s # <<>> /\ IsSpace(s[Len(s)]) THEN RStrip(SubSeq(s, 1, Len(s) - 1)) ELSE s
Strip(s) == RStrip(LStrip(s))

\* s.replace(a, b) for single characters a, b
ReplaceChar(s, a, b) == [i \in 1..Len(s) |-> IF s[i] = a THEN b ELSE s[i]]

\* str.split(): the maximal runs of non-whitespace; cur is the run being read
RECURSIVE SplitWsFrom(_, _, _)
SplitWsFrom(s, cur, out) ==
    IF s = <<>> THEN (IF cur = <<>> THEN out ELSE Append(out, cur))
    ELSE IF IsSpace(s[1])
    THEN SplitWsFrom(Tail(s), <<>>, IF cur = <<>> THEN out ELSE Append(out, cur))
    ELSE SplitWsFrom(Tail(s), Append(cur, s[1]), out)
SplitWs(s) == SplitWsFrom(s, <<>>, <<>>)

\* int(tok) succeeds: an optional sign, then digits (whitespace around the
\* literal and underscores between digits are left out of the alphabet)
AllDigits(s) == s # <<>> /\ \A i \in 1..Len(s) : IsDigit(s[i])
IntOk(tok) ==
    /\ tok # <<>>
    /\ IF tok[1] \in {"+", "-"} THEN AllDigits(Tail(tok)) ELSE AllDigits(tok)

RECURSIVE DigitsVal(_, _)
DigitsVal(s, acc) ==
    IF s = <<>> THEN acc ELSE DigitsVal(Tail(s), 10 * acc + DigitVal(s[1]))

\* an int() that drops the sign
IntValUnsigned(tok) ==
    IF tok[1] \in {"+", "-"} THEN DigitsVal(Tail(tok), 0) ELSE DigitsVal(tok, 0)

\* int(tok), for a tok with IntOk(tok)
IntVal(tok) ==
    IF tok[1] = "-" THEN -DigitsVal(Tail(tok), 0)
    ELSE IF tok[1] = "+" THEN DigitsVal(Tail(tok), 0)
    ELSE DigitsVal(tok, 0)

(***************************************************************************)
(* parse_terms, core.py:50-66.  The result is [err, terms]: err is the     *)
(* message of the ValueError raised ("" when the call returns), terms the  *)
(* list returned.                                                          *)
(***************************************************************************)
Raised(msg) == [err |-> msg, terms |-> <<>>]
Returned(ts) == [err |-> "", terms |-> ts]

\* core.py:60-66, the loop over parts
RECURSIVE ParseParts(_, _)
ParseParts(parts, ts) ==
    IF parts = <<>> THEN Returned(ts)
    ELSE IF ~IntOk(parts[1]) THEN Raised("bad term")
    ELSE ParseParts(Tail(parts), Append(ts, IntVal(parts[1])))

parse_terms(s) ==
    LET raw == Strip(s)
    IN  IF raw = <<>> THEN Raised("empty terms string")
        ELSE ParseParts(SplitWs(ReplaceChar(raw, ",", " ")), <<>>)

(***************************************************************************)
(* best_subsequence_match, core.py:222-243.  start and k are 0-based as in *)
(* the code; sequences are 1-based, hence the +1 on every index.           *)
(***************************************************************************)
\* a run that is cut off after its first term
RunCutAtOne(h, needle, start, k) ==
    IF k < 1 /\ start + k < Len(h) /\ k < Len(needle) /\ h[start + k + 1] = needle[k + 1]
    THEN 1
    ELSE k

\* core.py:236-237, the inner while loop
RECURSIVE RunFrom(_, _, _, _)
RunFrom(h, needle, start, k) ==
    IF start + k < Len(h) /\ k < Len(needle) /\ h[start + k + 1] = needle[k + 1]
    THEN RunFrom(h, needle, start, k + 1)
    ELSE k

\* a run that only replaces the best on ties as well (a later start wins)
ImprovesOrTies(k, best_len) == k >= best_len

\* core.py:238, "if k > best_len"
Improves(k, best_len) == k > best_len

\* core.py:233, "if len(hay) - start <= best_len: break"
CannotImprove(h, start, best_len) == Len(h) - start <= best_len

\* core.py:232-242, the for loop; best is <<best_len, best_at>>
RECURSIVE ScanFrom(_, _, _, _)
ScanFrom(h, needle, start, best) ==
    IF start >= Len(h) THEN best
    ELSE IF CannotImprove(h, start, best[1]) THEN best
    ELSE LET k  == RunFrom(h, needle, start, 0)
             nb == IF Improves(k, best[1]) THEN <<k, Some(start)>> ELSE best
         IN  IF nb[1] = Len(needle) THEN nb
             ELSE ScanFrom(h, needle, start + 1, nb)

best_subsequence_match(h, needle) ==
    IF needle = <<>> \/ h = <<>> THEN <<0, None>>
    ELSE ScanFrom(h, needle, 0, <<0, None>>)

(***************************************************************************)
(* OeisHit, core.py:90-98.  A score is the float match_len / denom, kept   *)
(* as the fraction <<numerator, denominator>> in lowest terms: for the     *)
(* operands the code divides (at most 400) two floats compare as the       *)
(* fractions do.                                                           *)
(***************************************************************************)
RECURSIVE Gcd(_, _)
Gcd(a, b) == IF b = 0 THEN a ELSE Gcd(b, a % b)

\* the float n / d, d > 0
Frac(n, d) == LET g == Gcd(n, d) IN <<n \div g, d \div g>>

FracLess(a, b) == a[1] * b[2] < b[1] * a[2]

\* core.py:276, f"A{int(a):06d}"
RECURSIVE ZeroPad(_, _)
ZeroPad(d, width) == IF Len(d) >= width THEN d ELSE ZeroPad(<<"0">> \o d, width)
ANumber(n) == <<"A">> \o ZeroPad(NatToDecimal(n), 6)

\* core.py:278, the identifier of a record that carries none
UnknownId == <<"A", "?", "?", "?", "?", "?", "?">>

OeisHit(a, nm, off, data, mlen, mat, sc) ==
    [a_number |-> a, name |-> nm, offset |-> off, data_terms |-> data,
     match_len |-> mlen, match_at |-> mat, score |-> sc]

(***************************************************************************)
(* sort_hits, core.py:449-481.                                             *)
(***************************************************************************)
\* an earliness that grows with match_at: the reciprocal forgotten
EarlyScoreNotInverted(match_at) ==
    IF match_at = None THEN Frac(0, 1) ELSE Frac(1 + match_at[1], 1)

\* core.py:449-456, _early_score: 0.0 for None, else 1.0 / (1.0 + match_at)
EarlyScore(match_at) ==
    IF match_at = None THEN Frac(0, 1) ELSE Frac(1, 1 + match_at[1])

\* core.py:475 and 479, the key lambdas, every component as a fraction
HitKey(h, rk) ==
    IF rk = "strict"
    THEN <<h.score, Frac(h.match_len, 1)>>
    ELSE <<h.score, Frac(h.match_len, 1), EarlyScore(h.match_at)>>

\* Python's ordering of tuples of equal length: a < b
RECURSIVE TupleLess(_, _)
TupleLess(a, b) ==
    IF a = <<>> THEN FALSE
    ELSE IF FracLess(a[1], b[1]) THEN TRUE
    ELSE IF FracLess(b[1], a[1]) THEN FALSE
    ELSE TupleLess(Tail(a), Tail(b))

\* an unstable descending sort: h goes before the hits whose key ties with its
GoesBeforeOrTies(h, x, rk) == ~TupleLess(HitKey(h, rk), HitKey(x, rk))

\* sorted(..., reverse=True) is stable: h goes before x, which came earlier in
\* the input, only when h's key is strictly greater
GoesBefore(h, x, rk) == TupleLess(HitKey(x, rk), HitKey(h, rk))

\* h put into the descending list out, behind every hit it does not go before
RECURSIVE InsertDesc(_, _, _)
InsertDesc(out, h, rk) ==
    IF out = <<>> THEN <<h>>
    ELSE IF GoesBefore(h, out[1], rk) THEN <<h>> \o out
    ELSE <<out[1]>> \o InsertDesc(Tail(out), h, rk)

\* sorted(hits, key=..., reverse=True), the hits taken in input order
RECURSIVE SortedDesc(_, _, _)
SortedDesc(hs, rk, out) ==
    IF hs = <<>> THEN out
    ELSE SortedDesc(Tail(hs), rk, InsertDesc(out, hs[1], rk))

\* core.py:459-481, for the two policies the command line admits
sort_hits(hs, rk) == SortedDesc(hs, rk, <<>>)

(***************************************************************************)
(* The merge step of main, cli.py:229-233.  The dict merged is the         *)
(* sequence of its values in insertion order, one per key a_number.        *)
(***************************************************************************)
\* merged.get(a): the stored entry as an Optional
DictGet(m, a) ==
    IF \E i \in 1..Len(m) : m[i].a_number = a
    THEN Some(m[CHOOSE i \in 1..Len(m) : m[i].a_number = a])
    ELSE None

\* merged[h.a_number] = h: a new key goes last, a known key keeps its place
DictPut(m, h) ==
    IF \E i \in 1..Len(m) : m[i].a_number = h.a_number
    THEN [i \in 1..Len(m) |-> IF m[i].a_number = h.a_number THEN h ELSE m[i]]
    ELSE Append(m, h)

\* cli.py:229, {h.a_number: h for h in offline_hits}
RECURSIVE SeedFrom(_, _)
SeedFrom(offl, m) ==
    IF offl = <<>> THEN m ELSE SeedFrom(Tail(offl), DictPut(m, offl[1]))

\* cli.py:232, (h.score, h.match_len) > (prev.score, prev.match_len)
OnlineReplaces(h, prev) ==
    TupleLess(HitKey(prev, "strict"), HitKey(h, "strict"))

\* cli.py:230-233, the loop over online_hits
RECURSIVE MergeOnline(_, _)
MergeOnline(onl, m) ==
    IF onl = <<>> THEN m
    ELSE LET h    == onl[1]
             prev == DictGet(m, h.a_number)
         IN  MergeOnline(Tail(onl),
                 IF prev = None \/ OnlineReplaces(h, prev[1])
                 THEN DictPut(m, h) ELSE m)

\* cli.py:229-233
MergeHits(offl, onl) == MergeOnline(onl, SeedFrom(offl, <<>>))

(***************************************************************************)
(* mismatch_details, core.py:484-516.  The result dict is a record; the    *)
(* keys query_index, hay_index, got and expected exist only for a mismatch.*)
(***************************************************************************)
\* core.py:493-498
DetailsHead(q, h, status) ==
    [a_number |-> h.a_number, match_at |-> h.match_at, match_len |-> h.match_len,
     query_len |-> Len(q), status |-> status]

\* a hay index that leaves out the matched run
HayIndexAtRunStart(h) == h.match_at[1]

\* core.py:509, hi = match_at + match_len
HayIndex(h) == h.match_at[1] + h.match_len

\* core.py:515, data_terms[hi] if 0 <= hi < len(data_terms) else None
ExpectedAt(h, hi) ==
    IF 0 <= hi /\ hi < Len(h.data_terms) THEN Some(h.data_terms[hi + 1]) ELSE None

mismatch_details(q, h) ==
    IF h.match_at = None \/ h.match_len <= 0
    THEN DetailsHead(q, h, "no_alignment")
    ELSE IF h.match_len >= Len(q)
    THEN DetailsHead(q, h, "full_match")
    ELSE LET qi == h.match_len
             hi == HayIndex(h)
         IN  [a_number |-> h.a_number, match_at |-> h.match_at,
              match_len |-> h.match_len, query_len |-> Len(q),
              status |-> "mismatch", query_index |-> qi, hay_index |-> hi,
              got |-> q[qi + 1], expected |-> ExpectedAt(h, hi)]

\* core.py:285-286 and 386-387: the score of a hit
ScoreOf(mlen, ql, dlen) == Frac(mlen, Max2(1, Min2(ql, dlen)))

(***************************************************************************)
(* Slices and substrings.                                                  *)
(***************************************************************************)
\* s[:n]
PyHead(s, n) ==
    IF n >= 0 THEN SubSeq(s, 1, Min2(n, Len(s)))
    ELSE SubSeq(s, 1, Max2(0, Len(s) + n))

\* str.split(","): the pieces between commas, empty ones kept
RECURSIVE SplitCommaFrom(_, _, _)
SplitCommaFrom(s, cur, out) ==
    IF s = <<>> THEN Append(out, cur)
    ELSE IF s[1] = "," THEN SplitCommaFrom(Tail(s), <<>>, Append(out, cur))
    ELSE SplitCommaFrom(Tail(s), Append(cur, s[1]), out)
SplitComma(s) == SplitCommaFrom(s, <<>>, <<>>)

\* ",".join(parts)
RECURSIVE JoinComma(_)
JoinComma(parts) ==
    IF parts = <<>> THEN <<>>
    ELSE IF Len(parts) = 1 THEN parts[1]
    ELSE parts[1] \o <<",">> \o JoinComma(Tail(parts))

\* needle in rest
IsSubstring(n, r) ==
    \E i \in 0..(Len(r) - Len(n)) : SubSeq(r, i + 1, i + Len(n)) = n

\* s.replace(" ", "")
RemoveSpaces(s) == SelectSeq(s, LAMBDA c : ~IsSpace(c))

\* core.py:69-72, terms_to_query_string
terms_to_query_string(ts, max_terms) ==
    JoinComma([i \in 1..Len(PyHead(ts, max_terms)) |-> ToDecimal(ts[i])])

(***************************************************************************)
(* The lossy-prefix parse of a term list, core.py:201-219 and 375-384.     *)
(* items are the pieces of the split, already stripped where the code      *)
(* strips them.                                                            *)
(***************************************************************************)
\* a parse that keeps one term more than the cap
AtCapPlusOne(out, cap) == Len(out) > cap

\* core.py:217 and 383, "if len(out) >= max_terms: break"
AtCap(out, cap) == Len(out) >= cap

RECURSIVE TakeInts(_, _, _)
TakeInts(items, out, cap) ==
    IF items = <<>> THEN out
    ELSE IF items[1] = <<>> THEN TakeInts(Tail(items), out, cap)
    ELSE IF ~IntOk(items[1]) THEN out
    ELSE LET o == Append(out, IntVal(items[1]))
         IN  IF AtCap(o, cap) THEN o ELSE TakeInts(Tail(items), o, cap)

\* core.py:201-219
parse_oeis_data_terms(data_field, max_terms) ==
    LET st == Strip(data_field)
    IN  IF st = <<>> THEN <<>>
        ELSE LET parts == SplitComma(st)
             IN  TakeInts([i \in 1..Len(parts) |-> Strip(parts[i])], <<>>, max_terms)

(***************************************************************************)
(* hits_from_online_json, core.py:246-300.  A payload is [kind, items]:    *)
(* a list of records, a dict wrapping one under "results", a single record *)
(* or anything else.  A record is [isdict, number, id, name, offset, data];*)
(* number 0 stands for a missing or falsy "number".                        *)
(***************************************************************************)
\* core.py:246-262
ResultsFromPayload(p) ==
    CASE p.kind = "list" -> p.items
      [] p.kind = "wrapped" -> p.items
      [] p.kind = "single" -> <<p.items[1]>>
      [] OTHER -> <<>>

\* core.py:274-278
RecordANumber(r) ==
    IF r.number # 0 THEN ANumber(r.number)
    ELSE IF Strip(r.id) # <<>> THEN Strip(r.id)
    ELSE UnknownId

\* core.py:284-298 and 385-398: the hit for data_terms under the query
HitFor(a, nm, off, data, needle) ==
    LET m == best_subsequence_match(data, needle)
    IN  OeisHit(a, nm, off, data, m[1], m[2], ScoreOf(m[1], Len(needle), Len(data)))

\* core.py:270-298, the loop over results[: max_hits * 3]
RECURSIVE OnlineHitsFrom(_, _, _)
OnlineHitsFrom(results, needle, out) ==
    IF results = <<>> THEN out
    ELSE LET r == results[1]
         IN  IF ~r.isdict THEN OnlineHitsFrom(Tail(results), needle, out)
             ELSE OnlineHitsFrom(Tail(results), needle,
                      Append(out, HitFor(RecordANumber(r), r.name, r.offset,
                                         parse_oeis_data_terms(r.data, DataCap),
                                         needle)))

\* core.py:265-300
hits_from_online_json(ts, p, mh) ==
    PyHead(sort_hits(OnlineHitsFrom(PyHead(ResultsFromPayload(p), mh * 3), ts, <<>>),
                     "strict"),
           mh)

(***************************************************************************)
(* oeis_search_offline_stripped, core.py:326-404.  A line is a sequence of *)
(* characters without its newline.                                         *)
(***************************************************************************)
\* line.split(None, 1): the first word and the rest, if any
SplitFirst(line) ==
    LET ls == LStrip(line)
    IN  IF ls = <<>> THEN <<>>
        ELSE IF \A i \in 1..Len(ls) : ~IsSpace(ls[i]) THEN <<ls>>
        ELSE LET sp   == SetMin({i \in 1..Len(ls) : IsSpace(ls[i])})
                 rest == LStrip(SubSeq(ls, sp + 1, Len(ls)))
             IN  IF rest = <<>> THEN <<SubSeq(ls, 1, sp - 1)>>
                 ELSE <<SubSeq(ls, 1, sp - 1), rest>>

\* core.py:345, aid.startswith("A") and len(aid) == 7
WellFormedId(aid) == Len(aid) = 7 /\ aid[1] = "A"

\* core.py:334-347: what iter_stripped_lines yields for a line, if anything
StrippedLine(line) ==
    IF line = <<>> \/ line[1] = "#" THEN None
    ELSE LET parts == SplitFirst(line)
         IN  IF Len(parts) < 2 THEN None
             ELSE LET aid  == Strip(parts[1])
                      rest == RemoveSpaces(Strip(parts[2]))
                  IN  IF WellFormedId(aid)
                      THEN Some([aid |-> aid, rest |-> rest]) ELSE None

\* core.py:362, "," + ",".join(str(x) for x in terms) + ","
WrappedNeedle(ts) == <<",">> \o terms_to_query_string(ts, Len(ts)) \o <<",">>

\* core.py:363-368: the names map; no names file is given
NameOf(aid) == ""

\* core.py:372-402, the scan; st is [hits, scanned]
RECURSIVE OfflineScan(_, _, _, _, _)
OfflineScan(lines, ts, mh, ms, st) ==
    IF lines = <<>> THEN st
    ELSE LET y == StrippedLine(lines[1])
         IN  IF y = None THEN OfflineScan(Tail(lines), ts, mh, ms, st)
             ELSE LET sc      == st.scanned + 1
                      accept  == IsSubstring(WrappedNeedle(ts), y[1].rest)
                      hs == IF accept
                            THEN Append(st.hits,
                                   HitFor(y[1].aid, NameOf(y[1].aid), "",
                                          TakeInts(SplitComma(y[1].rest), <<>>, DataCap),
                                          ts))
                            ELSE st.hits
                      nst == [hits |-> hs, scanned |-> sc]
                  IN  IF accept /\ Len(hs) >= mh THEN nst
                      ELSE IF ms # None /\ sc >= ms[1] THEN nst
                      ELSE OfflineScan(Tail(lines), ts, mh, ms, nst)

\* core.py:350-404
oeis_search_offline_stripped(ts, lines, mh, ms) ==
    PyHead(sort_hits(OfflineScan(lines, ts, mh, ms,
                                 [hits |-> <<>>, scanned |-> 0]).hits, "strict"),
           mh)

(***************************************************************************)
(* The matcher run on every haystack and needle within the bounds.         *)
(***************************************************************************)
MatchIdle == hay = <<>> /\ match = <<0, None>>
SortIdle == hits = <<>> /\ ranked = <<>> /\ reranked = <<>>
MergeIdle == offline_hits = <<>> /\ online_hits = <<>> /\ merged = <<>>
NoHit == OeisHit(<<>>, "", "", <<>>, 0, None, Frac(0, 1))
NoDetails == [status |-> "none"]
ExplainIdle == hit = NoHit /\ details = NoDetails
ParseIdle == text = <<>> /\ err = "" /\ src = <<>> /\ shape = "terms"
NoPayload == [kind |-> "other", items |-> <<>>]
AdapterIdle == payload = NoPayload /\ corpus = <<>> /\ max_hits = 10 /\ max_scan = None
ProbeIdle ==
    /\ no_online = FALSE
    /\ relax_online = FALSE
    /\ relax_min_terms = 8
    /\ max_query_terms = 40
    /\ qlen = 0
    /\ attempts = <<>>
    /\ online_err = None
    /\ min_match_len = 1
    /\ filtered = <<>>
    /\ merged_hits = <<>>
    /\ warning = None
    /\ exit_code = None

FetchIdle == fetch_arg = <<>> /\ a_number = <<>> /\ cache = "none" /\ io_log = <<>>

InitMatch ==
    /\ phase = "match_input"
    /\ terms \in SeqsUpTo(Vals, MaxLen)
    /\ hay \in SeqsUpTo(Vals, MaxLen)
    /\ match = <<0, None>>
    /\ rank = "strict"
    /\ SortIdle
    /\ MergeIdle
    /\ ExplainIdle
    /\ ParseIdle
    /\ AdapterIdle
    /\ ProbeIdle
    /\ scanned = 0
    /\ FetchIdle

Match ==
    /\ phase = "match_input"
    /\ match' = best_subsequence_match(hay, terms)
    /\ phase' = "matched"
    /\ UNCHANGED <<terms, hay, rank, sortVars, mergeVars, explainVars, parseVars,
                   adapterVars, probeVars, fetchVars, scanned>>

NextMatch == Match

SpecMatch == InitMatch /\ [][NextMatch]_vars

(***************************************************************************)
(* sort_hits run twice on every list of hits within the bounds.  The hits  *)
(* are any records, not only those an adapter builds.                      *)
(***************************************************************************)
SortScores == {Frac(1, 2), Frac(1, 1)}
SortHitSet ==
    {OeisHit(ANumber(1), "", "", <<>>, ml, at, sc) :
        ml \in {1, 2}, at \in {None, Some(0), Some(1)}, sc \in SortScores}
    \cup {OeisHit(ANumber(2), "", "", <<>>, 2, Some(0), Frac(1, 1)),
          OeisHit(ANumber(2), "", "", <<>>, 2, None, Frac(1, 1)),
          OeisHit(ANumber(2), "", "", <<>>, 1, Some(1), Frac(1, 2))}

Ranks == {"strict", "prefer-early"}

InitSort ==
    /\ phase = "sort_input"
    /\ hits \in SeqsUpTo(SortHitSet, MaxSortLen)
    /\ rank \in Ranks
    /\ ranked = <<>>
    /\ reranked = <<>>
    /\ terms = <<>>
    /\ MatchIdle
    /\ MergeIdle
    /\ ExplainIdle
    /\ ParseIdle
    /\ AdapterIdle
    /\ ProbeIdle
    /\ scanned = 0
    /\ FetchIdle

Rank ==
    /\ phase = "sort_input"
    /\ ranked' = sort_hits(hits, rank)
    /\ phase' = "ranked"
    /\ UNCHANGED <<terms, rank, matchVars, mergeVars, explainVars, parseVars,
                   adapterVars, probeVars, hits, reranked, fetchVars, scanned>>

Rerank ==
    /\ phase = "ranked"
    /\ reranked' = sort_hits(ranked, rank)
    /\ phase' = "reranked"
    /\ UNCHANGED <<terms, rank, matchVars, mergeVars, explainVars, parseVars,
                   adapterVars, probeVars, hits, ranked, fetchVars, scanned>>

NextSort == Rank \/ Rerank

SpecSort == InitSort /\ [][NextSort]_vars

(***************************************************************************)
(* The merge step run on every pair of hit lists within the bounds.  Both  *)
(* adapters return sort_hits(..., "strict"), so the lists start in strict  *)
(* rank order; a list may hold several hits with one identifier (two       *)
(* corpus lines with the same id, two records without number or id).       *)
(***************************************************************************)
MergeIds == {ANumber(1), UnknownId}
MergeKeys == {<<1, Frac(1, 2)>>, <<1, Frac(1, 1)>>, <<2, Frac(1, 1)>>}
OfflineHitSet ==
    {OeisHit(a, "", "", <<>>, k[1], Some(0), k[2]) : a \in MergeIds, k \in MergeKeys}
OnlineHitSet ==
    {OeisHit(a, "name", "0", <<>>, k[1], Some(0), k[2]) : a \in MergeIds, k \in MergeKeys}

InStrictOrder(hs) == sort_hits(hs, "strict") = hs

InitMerge ==
    /\ phase = "merge_input"
    /\ offline_hits \in {l \in SeqsUpTo(OfflineHitSet, MaxMergeLen) : InStrictOrder(l)}
    /\ online_hits \in {l \in SeqsUpTo(OnlineHitSet, MaxMergeLen) : InStrictOrder(l)}
    /\ merged = <<>>
    /\ terms = <<>>
    /\ rank = "strict"
    /\ MatchIdle
    /\ SortIdle
    /\ ExplainIdle
    /\ ParseIdle
    /\ AdapterIdle
    /\ ProbeIdle
    /\ scanned = 0
    /\ FetchIdle

Merge ==
    /\ phase = "merge_input"
    /\ merged' = MergeHits(offline_hits, online_hits)
    /\ phase' = "merged"
    /\ UNCHANGED <<terms, rank, matchVars, sortVars, explainVars, parseVars,
                   adapterVars, probeVars, offline_hits, online_hits,
                   fetchVars, scanned>>

NextMerge == Merge

SpecMerge == InitMerge /\ [][NextMerge]_vars

(***************************************************************************)
(* mismatch_details run on every non-empty query and every hit, within the *)
(* bounds, that satisfies the invariants the Hit record states:            *)
(* 0 <= match_len <= len(data_terms); match_at absent if match_len = 0;    *)
(* match_at + match_len <= len(data_terms) when match_at is present.       *)
(***************************************************************************)
HitInvariants(h) ==
    /\ 0 <= h.match_len /\ h.match_len <= Len(h.data_terms)
    /\ h.match_len = 0 => h.match_at = None
    /\ h.match_at # None =>
         /\ 0 <= h.match_at[1]
         /\ h.match_at[1] + h.match_len <= Len(h.data_terms)

ExplainHits(q) ==
    {h \in {OeisHit(ANumber(1), "", "", dt, ml, at, ScoreOf(ml, Len(q), Len(dt))) :
               dt \in SeqsUpTo(Vals, MaxData), ml \in 0..MaxData,
               at \in {None} \cup {Some(i) : i \in 0..MaxData}} :
        HitInvariants(h)}

InitExplain ==
    /\ phase = "explain_input"
    /\ terms \in SeqsUpTo(Vals, MaxLen) \ {<<>>}
    /\ hit \in ExplainHits(terms)
    /\ details = NoDetails
    /\ rank = "strict"
    /\ MatchIdle
    /\ SortIdle
    /\ MergeIdle
    /\ ParseIdle
    /\ AdapterIdle
    /\ ProbeIdle
    /\ scanned = 0
    /\ FetchIdle

Explain ==
    /\ phase = "explain_input"
    /\ details' = mismatch_details(terms, hit)
    /\ phase' = "explained"
    /\ UNCHANGED <<terms, rank, matchVars, sortVars, mergeVars, parseVars,
                   adapterVars, probeVars, hit, fetchVars, scanned>>

NextExplain == Explain

SpecExplain == InitExplain /\ [][NextExplain]_vars

(***************************************************************************)
(* parse_terms run on texts typed two ways: as decimal forms of integers   *)
(* with separator runs between them (src records the integers), or         *)
(* character by character, which reaches every text over FreeChars.        *)
(***************************************************************************)
TypedInts == {-10, -2, 0, 1, 7, 12}
Separators == {",", " "}
SepRuns == SeqsUpTo(Separators, 2) \ {<<>>}
FreeChars == {"1", "0", "-", "+", ",", " ", "x"}

InitParse ==
    /\ phase = "typing"
    /\ text \in {<<>>, <<" ">>}
    /\ src = <<>>
    /\ shape = "terms"
    /\ err = ""
    /\ terms = <<>>
    /\ rank = "strict"
    /\ MatchIdle
    /\ SortIdle
    /\ MergeIdle
    /\ ExplainIdle
    /\ AdapterIdle
    /\ ProbeIdle
    /\ scanned = 0
    /\ FetchIdle

\* the next integer in decimal, behind a separator run unless it is the first
TypeTerm(n, sep) ==
    /\ phase = "typing"
    /\ shape = "terms"
    /\ LET t == IF src = <<>> THEN text \o ToDecimal(n)
                ELSE text \o sep \o ToDecimal(n)
       IN  /\ Len(t) <= MaxText
           /\ text' = t
    /\ src' = Append(src, n)
    /\ UNCHANGED <<phase, terms, rank, matchVars, sortVars, mergeVars, explainVars,
                   adapterVars, probeVars, err, shape, fetchVars, scanned>>

\* any character
TypeChar(c) ==
    /\ phase = "typing"
    /\ Len(text) < MaxFreeText
    /\ shape = "terms" => src = <<>>
    /\ text' = Append(text, c)
    /\ shape' = "free"
    /\ UNCHANGED <<phase, terms, rank, matchVars, sortVars, mergeVars, explainVars,
                   adapterVars, probeVars, err, src, fetchVars, scanned>>

\* cli.py:192-198, terms = parse_terms(text), text ending in trail
Parse(trail) ==
    /\ phase = "typing"
    /\ LET r == parse_terms(text \o trail)
       IN  /\ err' = r.err
           /\ terms' = r.terms
    /\ text' = text \o trail
    /\ phase' = "parsed"
    /\ UNCHANGED <<rank, matchVars, sortVars, mergeVars, explainVars, adapterVars,
                   probeVars,
                   src, shape, fetchVars, scanned>>

NextParse ==
    \/ \E n \in TypedInts, sep \in SepRuns : TypeTerm(n, sep)
    \/ \E c \in FreeChars : TypeChar(c)
    \/ \E trail \in {<<>>, <<" ">>} : Parse(trail)

SpecParse == InitParse /\ [][NextParse]_vars

(***************************************************************************)
(* The two adapters run on one source record each: a payload around a      *)
(* record whose data field is the comma-joined pieces toks, and a corpus   *)
(* line whose term text is the same pieces between commas.  The pieces are *)
(* terms, a two-digit term, a malformed piece and the empty piece.         *)
(***************************************************************************)
DataToks == {<<"1">>, <<"2">>, <<"1", "2">>, <<"x">>, <<>>}

Record(number, id, data) ==
    [isdict |-> TRUE, number |-> number, id |-> id, name |-> "name",
     offset |-> "0", data |-> data]
NonDict == [isdict |-> FALSE]

\* a payload and a line of each shape the adapters tell apart
PayloadOfShape(sh, data) ==
    CASE sh = 1 -> [kind |-> "list", items |-> <<NonDict, Record(45, <<>>, data)>>]
      [] sh = 2 -> [kind |-> "wrapped",
                    items |-> <<Record(0, <<" ">> \o ANumber(2), data)>>]
      [] sh = 3 -> [kind |-> "single", items |-> <<Record(0, <<>>, data)>>]
      [] OTHER -> NoPayload

LineOfShape(sh, rest) ==
    CASE sh = 1 -> ANumber(45) \o <<" ">> \o rest
      [] sh = 2 -> ANumber(45) \o <<" ", " ">> \o rest \o <<" ">>
      [] sh = 3 -> <<"#">> \o ANumber(45) \o <<" ">> \o rest
      [] OTHER -> <<"A", "4", "5", " ">> \o rest

InitAdapters ==
    /\ phase = "adapter_input"
    /\ terms \in SeqsUpTo(Vals, MaxQuery)
    /\ \E toks \in SeqsUpTo(DataToks, MaxDataToks), sh \in 1..4 :
         /\ payload = PayloadOfShape(sh, JoinComma(toks))
         /\ corpus = <<LineOfShape(sh, <<",">> \o JoinComma(toks) \o <<",">>)>>
    /\ max_hits = 10
    /\ max_scan = None
    /\ rank = "strict"
    /\ MatchIdle
    /\ SortIdle
    /\ MergeIdle
    /\ ExplainIdle
    /\ ParseIdle
    /\ ProbeIdle
    /\ scanned = 0
    /\ FetchIdle

OnlineAdapter ==
    /\ phase = "adapter_input"
    /\ online_hits' = hits_from_online_json(terms, payload, max_hits)
    /\ phase' = "online_adapted"
    /\ UNCHANGED <<terms, rank, matchVars, sortVars, explainVars, parseVars,
                   adapterVars, probeVars, offline_hits, merged,
                   fetchVars, scanned>>

OfflineAdapter ==
    /\ phase = "online_adapted"
    /\ offline_hits' = oeis_search_offline_stripped(terms, corpus, max_hits, max_scan)
    /\ phase' = "adapted"
    /\ UNCHANGED <<terms, rank, matchVars, sortVars, explainVars, parseVars,
                   adapterVars, probeVars, online_hits, merged,
                   fetchVars, scanned>>

NextAdapters == OnlineAdapter \/ OfflineAdapter

SpecAdapters == InitAdapters /\ [][NextAdapters]_vars

(***************************************************************************)
(* The probe command, cli.py:191-261, with the online search and its       *)
(* relax loop, cli.py:24-62, taken one attempt at a time.  The response of *)
(* the network (or of the cache) to an attempt is an input: a payload, or  *)
(* an exception raised inside the try block.                               *)
(***************************************************************************)
\* cli.py:42-43
InitialQlen(ts, mqt) == Max2(1, Min2(Len(ts), mqt))

\* cli.py:216, the relax_min_terms handed to the loop
RelaxFloor(arg) == Max2(1, arg)

\* the condition of cli.py:56 with < for <=
StopsBelowFloor(hs, relax, ql, floor) == hs # <<>> \/ ~relax \/ ql < floor

\* cli.py:56
StopsRelaxing(hs, relax, ql, floor) == hs # <<>> \/ ~relax \/ ql <= floor

\* args.min_match_len taken as given
GivenMinMatchLen(arg) == arg

\* cli.py:200
EffectiveMinMatchLen(arg) == Max2(1, arg)

\* no [warn] line whatever online_err is
WarningNever(e) == None

\* cli.py:244-245, an empty message is falsy
WarningOf(e) == IF e # None /\ e[1] # "" THEN e ELSE None

\* cli.py:235
FilterHits(ms, arg) ==
    SelectSeq(ms, LAMBDA h : h.match_len >= EffectiveMinMatchLen(arg))

ProbeVals == {1, 2}
ProbeQueries == SeqsUpTo(ProbeVals, MaxProbeQuery) \ {<<>>}
\* the texts of the queries, a text of separators only, and a malformed text
ProbeTexts ==
    {terms_to_query_string(q, Len(q)) : q \in ProbeQueries} \cup {<<",">>, <<"x">>}

RelaxMinTermsArgs == 0..MaxFloorArg
MaxQueryTermsArgs == {0, 2, 40}
MaxHitsArgs == {1, 2}
MinMatchLenArgs == {0, 1, 2}

\* no result; one matching record; an anonymous record and one that matches nothing
ProbePayloads ==
    { [kind |-> "list", items |-> <<>>],
      [kind |-> "list", items |-> <<Record(45, <<>>, <<"1", ",", "2", ",", "1">>)>>],
      [kind |-> "wrapped",
       items |-> <<Record(0, <<>>, <<"2", ",", "2">>), Record(45, <<>>, <<"3">>)>>] }

CorpusLine(n, rest) == ANumber(n) \o <<" ">> \o rest

\* no file (or an empty one); three sequences; one identifier on two lines
ProbeCorpora ==
    { <<>>,
      << CorpusLine(7, <<",", "1", ",", "2", ",", "1", ",">>),
         CorpusLine(8, <<",", "2", ",", "1", ",", "1", ",">>),
         CorpusLine(45, <<",", "2", ",", "2", ",", "1", ",">>) >>,
      << CorpusLine(45, <<",", "1", ",", "2", ",">>),
         CorpusLine(45, <<",", "2", ",", "1", ",", "2", ",">>) >> }

\* main before its arguments are parsed
Init ==
    /\ phase = "start"
    /\ terms = <<>>
    /\ rank = "strict"
    /\ MatchIdle
    /\ SortIdle
    /\ MergeIdle
    /\ ExplainIdle
    /\ ParseIdle
    /\ AdapterIdle
    /\ ProbeIdle
    /\ scanned = 0
    /\ FetchIdle

\* cli.py:176-198: the arguments the online search reads, and the terms; a
\* ValueError of parse_terms leaves main.  Each other argument is drawn
\* where main reads it.
ParseArgs(txt, no, relax, floor, mqt, mh) ==
    /\ phase = "start"
    /\ text' = txt
    /\ no_online' = no
    /\ relax_online' = relax
    /\ relax_min_terms' = floor
    /\ max_query_terms' = mqt
    /\ max_hits' = mh
    /\ LET r == parse_terms(txt)
       IN  /\ err' = r.err
           /\ terms' = r.terms
           /\ phase' = IF r.err = "" THEN "parsed" ELSE "aborted"
    /\ UNCHANGED <<rank, matchVars, sortVars, mergeVars, explainVars, src, shape,
                   payload, corpus, max_scan, qlen, attempts, online_err,
                   min_match_len, filtered, merged_hits, warning, exit_code,
                   fetchVars, scanned>>

SomeParseArgs ==
    /\ phase = "start"
    /\ \E txt \in ProbeTexts, no \in BOOLEAN, relax \in BOOLEAN,
          floor \in RelaxMinTermsArgs, mqt \in MaxQueryTermsArgs, mh \in MaxHitsArgs :
           ParseArgs(txt, no, relax, floor, mqt, mh)

\* cli.py:204-206 with --no-online
SkipOnline ==
    /\ phase = "parsed"
    /\ no_online
    /\ phase' = "offline"
    /\ UNCHANGED <<terms, rank, matchVars, sortVars, mergeVars, explainVars,
                   parseVars, adapterVars, probeVars, fetchVars, scanned>>

\* cli.py:207 and 42-43
EnterOnline ==
    /\ phase = "parsed"
    /\ ~no_online
    /\ qlen' = InitialQlen(terms, max_query_terms)
    /\ phase' = "online"
    /\ UNCHANGED <<terms, rank, matchVars, sortVars, mergeVars, explainVars,
                   parseVars, adapterVars, no_online, relax_online, relax_min_terms,
                   max_query_terms, attempts, online_err, min_match_len, filtered,
                   merged_hits, warning, exit_code, fetchVars, scanned>>

AttemptOf(hs, failed) ==
    [qlen |-> qlen, query |-> terms_to_query_string(terms, qlen),
     nhits |-> Len(hs), failed |-> failed]

\* cli.py:46-59, one pass of the loop on the response p
Attempt(p) ==
    /\ phase = "online"
    /\ LET hs == hits_from_online_json(terms, p, max_hits)
       IN  /\ attempts' = Append(attempts, AttemptOf(hs, FALSE))
           /\ IF StopsRelaxing(hs, relax_online, qlen, RelaxFloor(relax_min_terms))
              THEN /\ online_hits' = hs
                   /\ phase' = "offline"
                   /\ qlen' = qlen
              ELSE /\ qlen' = qlen - 1
                   /\ UNCHANGED <<online_hits, phase>>
    /\ payload' = p
    /\ UNCHANGED <<terms, rank, matchVars, sortVars, explainVars, parseVars,
                   offline_hits, merged, corpus, max_hits, max_scan, no_online,
                   relax_online, relax_min_terms, max_query_terms, online_err,
                   min_match_len, filtered, merged_hits, warning, exit_code,
                   fetchVars, scanned>>

\* cli.py:61-62, an exception raised by the search or by the adapter
AttemptFails ==
    /\ phase = "online"
    /\ attempts' = Append(attempts, AttemptOf(<<>>, TRUE))
    /\ online_hits' = <<>>
    /\ online_err' = Some("error")
    /\ phase' = "offline"
    /\ UNCHANGED <<terms, rank, matchVars, sortVars, explainVars, parseVars,
                   adapterVars, offline_hits, merged, no_online, relax_online,
                   relax_min_terms, max_query_terms, qlen, min_match_len, filtered,
                   merged_hits, warning, exit_code, fetchVars, scanned>>

\* cli.py:219-227; without --offline-stripped offline_hits stays empty, as it
\* does on an empty file
OfflineSearch(c, ms) ==
    /\ phase = "offline"
    /\ corpus' = c
    /\ max_scan' = ms
    /\ offline_hits' = oeis_search_offline_stripped(terms, c, max_hits, ms)
    /\ phase' = "merge"
    /\ UNCHANGED <<terms, rank, matchVars, sortVars, explainVars, parseVars,
                   probeVars, online_hits, merged, payload, max_hits,
                   fetchVars, scanned>>

\* cli.py:229-261: merge, filter, rank, truncate, explain, return 0
Finish(mml, rk, explain) ==
    /\ phase = "merge"
    /\ min_match_len' = mml
    /\ rank' = rk
    /\ merged' = MergeHits(offline_hits, online_hits)
    /\ filtered' = FilterHits(merged', mml)
    /\ merged_hits' = PyHead(sort_hits(filtered', rk), max_hits)
    /\ IF explain /\ merged_hits' # <<>>
       THEN /\ hit' = merged_hits'[1]
            /\ details' = mismatch_details(terms, merged_hits'[1])
       ELSE UNCHANGED explainVars
    /\ warning' = WarningOf(online_err)
    /\ exit_code' = Some(0)
    /\ phase' = "done"
    /\ UNCHANGED <<terms, matchVars, sortVars, parseVars, adapterVars, offline_hits,
                   online_hits, no_online, relax_online, relax_min_terms,
                   max_query_terms, qlen, attempts, online_err,
                   fetchVars, scanned>>

Next ==
    \/ SomeParseArgs
    \/ SkipOnline
    \/ EnterOnline
    \/ \E p \in ProbePayloads : Attempt(p)
    \/ AttemptFails
    \/ \E c \in ProbeCorpora, ms \in {None, Some(1)} : OfflineSearch(c, ms)
    \/ \E mml \in MinMatchLenArgs, rk \in Ranks, explain \in BOOLEAN :
         Finish(mml, rk, explain)

Spec == Init /\ [][Next]_vars

\* main runs on one thread: a step that can be taken is taken
FairSpec == Spec /\ WF_vars(Next)

\* The probe up to the return of _online_probe_with_optional_relax.  main
\* runs on one thread and the search is given a timeout (cli.py:210): a step
\* that can be taken is taken.
NextOnline ==
    \/ SomeParseArgs
    \/ SkipOnline
    \/ EnterOnline
    \/ \E p \in ProbePayloads : Attempt(p)
    \/ AttemptFails

SpecOnline == Init /\ [][NextOnline]_vars

FairOnline == SpecOnline /\ WF_vars(NextOnline)

(***************************************************************************)
(* oeis_fetch_by_id_online, core.py:177-198, one step per line that reads  *)
(* or writes outside the function.  cache is what the cache holds for the  *)
(* lookup's key: "none" when no cache is given, "fresh" when it holds an   *)
(* entry within its time to live, "empty" otherwise.                       *)
(***************************************************************************)
\* str.upper on the characters used
UpperChar(c) ==
    CASE c = "a" -> "A"
      [] c = "b" -> "B"
      [] c = "x" -> "X"
      [] OTHER -> c
Upper(s) == [i \in 1..Len(s) |-> UpperChar(s[i])]

\* core.py:185
NormalizeId(s) == Strip(Upper(s))

\* core.py:186, not a_number.startswith("A") or len(a_number) != 7
RejectsId(s) == ~(s # <<>> /\ s[1] = "A") \/ Len(s) # 7

\* a first character, up to MaxIdBody more, and a blank or none at each end
FetchArgs ==
    {l \o h \o b \o r : l \in {<<>>, <<" ">>}, h \in {<<"A">>, <<"a">>, <<"b">>},
                         b \in SeqsUpTo({"0", "4", "x"}, MaxIdBody),
                         r \in {<<>>, <<" ">>}}

InitFetch ==
    /\ phase = "fetch_start"
    /\ fetch_arg \in FetchArgs
    /\ a_number = <<>>
    /\ cache \in {"none", "empty", "fresh"}
    /\ io_log = <<>>
    /\ terms = <<>>
    /\ rank = "strict"
    /\ MatchIdle
    /\ SortIdle
    /\ MergeIdle
    /\ ExplainIdle
    /\ ParseIdle
    /\ AdapterIdle
    /\ ProbeIdle
    /\ scanned = 0

FetchUnchanged ==
    UNCHANGED <<terms, rank, matchVars, sortVars, mergeVars, explainVars, parseVars,
                adapterVars, probeVars, fetch_arg, scanned>>

\* core.py:185-187
FetchValidate ==
    /\ phase = "fetch_start"
    /\ a_number' = NormalizeId(fetch_arg)
    /\ phase' = IF RejectsId(a_number') THEN "fetch_raised" ELSE "fetch_cache"
    /\ UNCHANGED <<cache, io_log>>
    /\ FetchUnchanged

\* core.py:191-194
FetchCacheGet ==
    /\ phase = "fetch_cache"
    /\ io_log' = IF cache = "none" THEN io_log ELSE Append(io_log, "cache_get")
    /\ phase' = IF cache = "fresh" THEN "fetch_returned" ELSE "fetch_request"
    /\ UNCHANGED <<a_number, cache>>
    /\ FetchUnchanged

\* core.py:195; an exception of http_get_json leaves the function
FetchRequest(ok) ==
    /\ phase = "fetch_request"
    /\ io_log' = Append(io_log, "request")
    /\ phase' = IF ok THEN "fetch_put" ELSE "fetch_failed"
    /\ UNCHANGED <<a_number, cache>>
    /\ FetchUnchanged

\* core.py:196-198
FetchCachePut ==
    /\ phase = "fetch_put"
    /\ io_log' = IF cache = "none" THEN io_log ELSE Append(io_log, "cache_put")
    /\ cache' = IF cache = "none" THEN cache ELSE "fresh"
    /\ phase' = "fetch_returned"
    /\ UNCHANGED a_number
    /\ FetchUnchanged

NextFetch ==
    \/ FetchValidate
    \/ FetchCacheGet
    \/ \E ok \in BOOLEAN : FetchRequest(ok)
    \/ FetchCachePut

SpecFetch == InitFetch /\ [][NextFetch]_vars

(***************************************************************************)
(* oeis_search_offline_stripped, core.py:350-404, on corpora of several    *)
(* lines with both limits drawn, its locals hits and scanned kept.         *)
(***************************************************************************)
\* three sequences, a short identifier, a comment and a line of one column
OfflineLines ==
    { CorpusLine(7, <<",", "1", ",", "2", ",">>),
      CorpusLine(8, <<",", "2", ",", "1", ",">>),
      CorpusLine(45, <<",", "1", ",", "1", ",", "2", ",", "2", ",">>),
      <<"A", "4", "5", " ", ",", "1", ",", "2", ",">>,
      <<"#">> \o CorpusLine(7, <<",", "1", ",">>),
      ANumber(9) }

InitOffline ==
    /\ phase = "offline_input"
    /\ terms \in SeqsUpTo(Vals, MaxQuery)
    /\ corpus \in SeqsUpTo(OfflineLines, MaxCorpus)
    /\ max_hits \in {0, 1, 2}
    /\ max_scan \in {None, Some(0), Some(1), Some(2)}
    /\ payload = NoPayload
    /\ scanned = 0
    /\ rank = "strict"
    /\ MatchIdle
    /\ SortIdle
    /\ MergeIdle
    /\ ExplainIdle
    /\ ParseIdle
    /\ ProbeIdle
    /\ FetchIdle

\* core.py:370-404
OfflineRun ==
    /\ phase = "offline_input"
    /\ LET st == OfflineScan(corpus, terms, max_hits, max_scan,
                             [hits |-> <<>>, scanned |-> 0])
       IN  /\ hits' = st.hits
           /\ scanned' = st.scanned
    /\ offline_hits' = oeis_search_offline_stripped(terms, corpus, max_hits, max_scan)
    /\ phase' = "offline_done"
    /\ UNCHANGED <<terms, rank, matchVars, explainVars, parseVars, adapterVars,
                   probeVars, fetchVars, ranked, reranked, online_hits, merged>>

NextOffline == OfflineRun

SpecOffline == InitOffline /\ [][NextOffline]_vars

(***************************************************************************)
(* The explainer on hits built from the matcher's own result, as the       *)
(* adapters build them (core.py:284-298, 385-398) and as _print_explain_top*)
(* receives them with the same query (cli.py:65-91).                       *)
(***************************************************************************)
ExplainMatched ==
    /\ phase = "matched"
    /\ hit' = OeisHit(ANumber(1), "", "", hay, match[1], match[2],
                      ScoreOf(match[1], Len(terms), Len(hay)))
    /\ details' = mismatch_details(terms, hit')
    /\ phase' = "match_explained"
    /\ UNCHANGED <<terms, rank, matchVars, sortVars, mergeVars, parseVars,
                   adapterVars, probeVars, fetchVars, scanned>>

NextMatchExplain == Match \/ ExplainMatched

SpecMatchExplain == InitMatch /\ [][NextMatchExplain]_vars

(***************************************************************************)
(* What the matcher is to compute, stated without the loop.                *)
(***************************************************************************)
\* the start indices of h (0-based)
Starts(h) == 0..(Len(h) - 1)

\* h[s..s+j-1] equals needle[0..j-1]
AgreeFor(h, needle, s, j) ==
    /\ j <= Len(needle)
    /\ s + j <= Len(h)
    /\ \A i \in 1..j : h[s + i] = needle[i]

\* the longest run at start s
LongestRun(h, needle, s) ==
    SetMax({j \in 0..Len(needle) : AgreeFor(h, needle, s, j)})

BestLen(h, needle) ==
    IF h = <<>> THEN 0
    ELSE SetMax({LongestRun(h, needle, s) : s \in Starts(h)})

\* C1: best_subsequence_match returns (k, i) with k the maximum over all
\* start indices of the longest run equal to a needle prefix and i the
\* smallest start achieving it; (0, absent) when either input is empty or no
\* haystack element equals needle[0].
C1_BestMatchIsEarliestMaximum ==
    phase = "matched" =>
        LET k == BestLen(hay, terms)
        IN  /\ match[1] = k
            /\ k = 0 => match[2] = None
            /\ k > 0 => match[2] =
                 Some(SetMin({s \in Starts(hay) : LongestRun(hay, terms, s) = k}))
            /\ (hay = <<>> \/ terms = <<>>
                  \/ \A i \in 1..Len(hay) : hay[i] # terms[1])
                 => match = <<0, None>>

\* a run where an early exit was taken with starts left untried, and the
\* best run is neither at the first start nor unique
C1_Witness ==
    /\ phase = "matched"
    /\ match[1] >= 2
    /\ match[1] < Len(terms)
    /\ match[2] # None
    /\ match[2][1] > 0
    /\ Cardinality({s \in Starts(hay) : LongestRun(hay, terms, s) >= 1}) >= 2

(***************************************************************************)
(* What the ranker is to compute.                                          *)
(***************************************************************************)
Perms(n) == {p \in [1..n -> 1..n] : \A i, j \in 1..n : i # j => p[i] # p[j]}

\* the strict key of a hit, as the pair the specification names
SameScoreAndLen(a, b) == a.score = b.score /\ a.match_len = b.match_len

ScoreLenGreater(a, b) ==
    \/ FracLess(b.score, a.score)
    \/ a.score = b.score /\ a.match_len > b.match_len

\* a's alignment is earlier than b's: present and smaller, or b's is absent
EarlierAt(a, b) ==
    /\ a.match_at # None
    /\ b.match_at = None \/ a.match_at[1] < b.match_at[1]

\* a must come before b under the policy
Outranks(a, b, rk) ==
    \/ ScoreLenGreater(a, b)
    \/ rk = "prefer-early" /\ SameScoreAndLen(a, b) /\ EarlierAt(a, b)

\* out is inp reordered by p, descending, ties in input order
IsStableRanking(inp, out, rk) ==
    /\ Len(out) = Len(inp)
    /\ \E p \in Perms(Len(inp)) :
         /\ \A i \in 1..Len(inp) : out[i] = inp[p[i]]
         /\ \A i, j \in 1..Len(inp) : i < j =>
              \/ Outranks(inp[p[i]], inp[p[j]], rk)
              \/ ~Outranks(inp[p[j]], inp[p[i]], rk) /\ p[i] < p[j]

\* C3: sort_hits returns a permutation of its input, descending by
\* (score, match_len) under strict and by (score, match_len, earliness) under
\* prefer-early (smaller match_at first, absent match_at last among equal
\* (score, match_len)), hits of equal key left in input order.
C3_SortIsStableDescending ==
    phase \in {"ranked", "reranked"} =>
        /\ IsStableRanking(hits, ranked, rank)
        /\ \A i, j \in 1..Len(ranked) :
             Outranks(ranked[i], ranked[j], rank) => i < j

\* three hits, two of them tied on the whole key (kept in input order) and
\* the input not already in rank order
C3_Witness ==
    /\ phase = "ranked"
    /\ rank = "prefer-early"
    /\ Len(hits) = 3
    /\ ranked # hits
    /\ \E i, j \in 1..3 : i < j /\ hits[i] # hits[j]
         /\ HitKey(hits[i], rank) = HitKey(hits[j], rank)
    /\ \E i, j \in 1..3 : SameScoreAndLen(hits[i], hits[j])
         /\ hits[i].match_at = None /\ hits[j].match_at # None /\ i < j

\* C4: ranking is idempotent: sort_hits(sort_hits(hits, p), p) equals
\* sort_hits(hits, p) element for element.
C4_SortIsIdempotent ==
    phase = "reranked" => reranked = ranked

\* a re-ranked list that the first ranking had to reorder and that holds two
\* different hits with tied keys
C4_Witness ==
    /\ phase = "reranked"
    /\ ranked # hits
    /\ \E i, j \in 1..Len(ranked) : i < j /\ ranked[i] # ranked[j]
         /\ HitKey(ranked[i], rank) = HitKey(ranked[j], rank)

(***************************************************************************)
(* What the merger is to compute.                                          *)
(***************************************************************************)
IdsOf(hs) == {hs[i].a_number : i \in 1..Len(hs)}
WithId(hs, a) == {i \in 1..Len(hs) : hs[i].a_number = a}
HitsOf(hs) == {hs[i] : i \in 1..Len(hs)}

\* one entry per identifier of either list
OnePerIdentifier ==
    /\ IdsOf(merged) = IdsOf(offline_hits) \cup IdsOf(online_hits)
    /\ \A i, j \in 1..Len(merged) : merged[i].a_number = merged[j].a_number => i = j

Survivor(a) == merged[CHOOSE i \in 1..Len(merged) : merged[i].a_number = a]

\* no hit of either list with identifier a has a greater (score, match_len)
\* than h
GreatestFor(h, a) ==
    \A x \in HitsOf(offline_hits) \cup HitsOf(online_hits) :
        x.a_number = a => ~ScoreLenGreater(x, h)

\* C2: the merge yields one hit per identifier of either list; for an
\* identifier of both lists the survivor is the hit with the greater
\* (score, match_len), an offline hit on an exact tie; for an identifier of
\* one list only, a hit of that list.
C2_MergeKeepsGreatest ==
    phase = "merged" =>
        /\ OnePerIdentifier
        /\ \A a \in IdsOf(merged) :
             LET s == Survivor(a)
             IN  /\ a \in IdsOf(offline_hits) /\ a \in IdsOf(online_hits) =>
                      /\ GreatestFor(s, a)
                      /\ (\E x \in HitsOf(offline_hits) :
                              x.a_number = a /\ GreatestFor(x, a))
                           => s \in HitsOf(offline_hits)
                 /\ a \notin IdsOf(online_hits) => s \in HitsOf(offline_hits)
                 /\ a \notin IdsOf(offline_hits) => s \in HitsOf(online_hits)

\* the stored offline entry for a: the last offline hit that carries a
LastOffline(a) == offline_hits[SetMax(WithId(offline_hits, a))]

\* the first of the online hits for a that none of them exceeds
BestOnline(a) ==
    online_hits[SetMin({i \in WithId(online_hits, a) :
        \A j \in WithId(online_hits, a) :
            ~ScoreLenGreater(online_hits[j], online_hits[i])})]

\* What the merge step does instead: the entry stored for an identifier is
\* the last offline hit that carries it, replaced by an online hit only when
\* that hit's (score, match_len) is strictly greater.
MergeKeepsGreaterOfLastOffline ==
    phase = "merged" =>
        /\ OnePerIdentifier
        /\ \A a \in IdsOf(merged) :
             LET s == Survivor(a)
             IN  IF a \notin IdsOf(online_hits) THEN s = LastOffline(a)
                 ELSE IF a \notin IdsOf(offline_hits) THEN s = BestOnline(a)
                 ELSE IF ScoreLenGreater(BestOnline(a), LastOffline(a))
                      THEN s = BestOnline(a)
                      ELSE s = LastOffline(a)

\* an identifier of both lists whose offline and online hits tie exactly (the
\* offline hit kept), beside an identifier only the online list holds
C2_Witness ==
    /\ phase = "merged"
    /\ \E a \in IdsOf(offline_hits) \cap IdsOf(online_hits) :
         /\ SameScoreAndLen(LastOffline(a), BestOnline(a))
         /\ Survivor(a) = LastOffline(a)
    /\ \E a \in IdsOf(online_hits) \ IdsOf(offline_hits) :
         Survivor(a) \in HitsOf(online_hits)
    /\ \E a \in IdsOf(offline_hits) : Cardinality(WithId(offline_hits, a)) = 2

(***************************************************************************)
(* What the explainer is to report.                                        *)
(***************************************************************************)
\* the four fields of a mismatch result
MismatchFields ==
    /\ details.status = "mismatch"
    /\ details.query_index = hit.match_len
    /\ details.hay_index = hit.match_at[1] + hit.match_len
    /\ 0 <= details.query_index /\ details.query_index < Len(terms)
    /\ details.got = terms[details.query_index + 1]
    /\ details.expected =
         IF details.hay_index < Len(hit.data_terms)
         THEN Some(hit.data_terms[details.hay_index + 1]) ELSE None

\* C5: mismatch_details returns 'full_match' when match_len >= len(query),
\* 'no_alignment' when match_at is absent or match_len = 0, otherwise
\* 'mismatch' with query_index = match_len, hay_index = match_at + match_len,
\* got = query[query_index] and expected = data_terms[hay_index] when that is
\* in range, absent otherwise.
C5_ExplainAsStated ==
    phase = "explained" =>
        /\ hit.match_len >= Len(terms) => details.status = "full_match"
        /\ (hit.match_at = None \/ hit.match_len = 0) =>
             details.status = "no_alignment"
        /\ ~(hit.match_len >= Len(terms))
             /\ ~(hit.match_at = None \/ hit.match_len = 0) => MismatchFields

\* C5 (amended): 'no_alignment' when match_at is absent or match_len = 0;
\* otherwise 'full_match' when match_len >= len(query); otherwise 'mismatch'
\* with the fields above, query_index a valid index of the query.
C5_ExplainNoAlignmentFirst ==
    phase = "explained" =>
        IF hit.match_at = None \/ hit.match_len = 0
        THEN details.status = "no_alignment"
        ELSE IF hit.match_len >= Len(terms)
        THEN details.status = "full_match"
        ELSE MismatchFields

\* a mismatch behind a run that starts inside data_terms, with the expected
\* term present
C5_Witness ==
    /\ phase = "explained"
    /\ details.status = "mismatch"
    /\ hit.match_at[1] > 0
    /\ hit.match_len >= 1
    /\ details.expected # None

(***************************************************************************)
(* What the parser is to return.                                           *)
(***************************************************************************)
IsSeparator(c) == c \in Separators

\* the tokens of t: its maximal runs of non-separator characters, as the
\* pairs <<first, last>> of their positions
TokenSpans(t) ==
    {sp \in (1..Len(t)) \X (1..Len(t)) :
        /\ sp[1] <= sp[2]
        /\ \A i \in sp[1]..sp[2] : ~IsSeparator(t[i])
        /\ sp[1] = 1 \/ IsSeparator(t[sp[1] - 1])
        /\ sp[2] = Len(t) \/ IsSeparator(t[sp[2] + 1])}

\* C6: a text of the decimal forms of a non-empty sequence of integers,
\* separated by non-empty runs of commas and whitespace, whitespace allowed
\* before and behind, parses to exactly that sequence; parse_terms raises a
\* ValueError and returns nothing when the text is empty or whitespace only,
\* or when a token is not a valid integer.
C6_ParseReturnsTheTerms ==
    phase = "parsed" =>
        /\ shape = "terms" /\ src # <<>> => err = "" /\ terms = src
        /\ (\A i \in 1..Len(text) : IsSpace(text[i])) =>
             err = "empty terms string" /\ terms = <<>>
        /\ (\E sp \in TokenSpans(text) : ~IntOk(SubSeq(text, sp[1], sp[2]))) =>
             err = "bad term" /\ terms = <<>>

\* three integers, one negative and one of two digits, parsed from a text
\* with mixed separators and whitespace on both ends
C6_Witness ==
    /\ phase = "parsed"
    /\ shape = "terms"
    /\ Len(src) = 3
    /\ terms = src
    /\ \E i \in 1..3 : src[i] < 0
    /\ text[1] = " " /\ text[Len(text)] = " "
    /\ \E i \in 1..(Len(text) - 1) : text[i] = "," /\ text[i + 1] = " "

\* C7: the query is never empty: parse_terms either raises or returns at
\* least one integer.
C7_QueryIsNonEmpty ==
    phase = "parsed" => err # "" \/ Len(terms) >= 1

(***************************************************************************)
(* What the adapters are to build.                                         *)
(***************************************************************************)
AdapterHitOk(h, q) ==
    LET denom == Max2(1, Min2(Len(q), Len(h.data_terms)))
    IN  /\ 0 <= h.match_len /\ h.match_len <= Len(h.data_terms)
        /\ h.match_len <= Len(q)
        /\ h.match_at = None <=> h.match_len = 0
        /\ h.match_at # None =>
             /\ 0 <= h.match_at[1]
             /\ h.match_at[1] + h.match_len <= Len(h.data_terms)
        /\ Len(h.data_terms) <= DataCap
        /\ h.match_len <= denom
        /\ h.score[1] * denom = h.match_len * h.score[2]
        /\ 0 <= h.score[1] /\ h.score[1] <= h.score[2]

\* C8: every hit either adapter builds has 0 <= match_len <= len(data_terms),
\* match_len <= len(query), match_at absent exactly when match_len = 0,
\* match_at + match_len <= len(data_terms) when present, data_terms within
\* the cap, and score = match_len / max(1, min(len(query), len(data_terms)))
\* in [0, 1].
C8_AdapterHitsAreWellFormed ==
    \A h \in HitsOf(online_hits) \cup HitsOf(offline_hits) : AdapterHitOk(h, terms)

\* an offline hit whose data_terms were cut at the cap and match only part of
\* the query, beside an online hit
C8_Witness ==
    /\ phase = "adapted"
    /\ online_hits # <<>>
    /\ \E h \in HitsOf(offline_hits) :
         /\ Len(h.data_terms) = DataCap
         /\ 0 < h.match_len /\ h.match_len < Len(terms)

(***************************************************************************)
(* The minimum-match filter of the probe, cli.py:200 and 235-237.          *)
(***************************************************************************)
KeptAtLeast(ms, m) == SelectSeq(ms, LAMBDA h : h.match_len >= m)

\* C9 as stated: the filter removes exactly the merged hits whose match_len is
\* below the configured minimum, with the default minimum of 1 nothing is
\* removed, and what is kept is ranked and truncated to max_hits.
C9_FilterAsStated ==
    phase = "done" =>
        /\ filtered = KeptAtLeast(merged, min_match_len)
        /\ (min_match_len = 1 => filtered = merged)
        /\ merged_hits = PyHead(sort_hits(filtered, rank), max_hits)

\* C9, amended: the filter removes exactly the merged hits whose match_len is
\* below the larger of 1 and the configured minimum, so with the default
\* minimum of 1 it removes exactly the hits with match_len = 0; what is kept
\* is ranked and truncated to max_hits.
C9_FilterClampsMinimum ==
    phase = "done" =>
        /\ filtered = KeptAtLeast(merged, IF min_match_len > 1 THEN min_match_len ELSE 1)
        /\ (min_match_len = 1 =>
               filtered = SelectSeq(merged, LAMBDA h : h.match_len # 0))
        /\ merged_hits = PyHead(sort_hits(filtered, rank), max_hits)

\* a run with the default minimum in which the filter drops a hit with
\* match_len = 0 and the truncation drops a hit that passed the filter
C9_Witness ==
    /\ phase = "done"
    /\ min_match_len = 1
    /\ \E h \in HitsOf(merged) : h.match_len = 0
    /\ filtered # <<>>
    /\ Len(filtered) < Len(merged)
    /\ Len(merged_hits) < Len(filtered)

(***************************************************************************)
(* The relax loop, cli.py:24-62, read off the record of its attempts.      *)
(***************************************************************************)
LoopFloor == IF relax_min_terms > 1 THEN relax_min_terms ELSE 1
LoopInitialLength ==
    LET m == IF max_query_terms < Len(terms) THEN max_query_terms ELSE Len(terms)
    IN  IF m > 1 THEN m ELSE 1
LoopOver == ~no_online /\ phase \in {"offline", "merge", "done"}
EndsLoop(a) == a.nhits > 0 \/ a.failed \/ ~relax_online \/ a.qlen <= LoopFloor

LoopShape ==
    /\ attempts # <<>> => attempts[1].qlen = LoopInitialLength
    /\ \A i \in 2..Len(attempts) :
         /\ relax_online
         /\ attempts[i].qlen = attempts[i - 1].qlen - 1
         /\ attempts[i - 1].nhits = 0
         /\ ~EndsLoop(attempts[i - 1])
         /\ attempts[i].qlen >= LoopFloor
    /\ Len(attempts) <= Max2(1, LoopInitialLength - LoopFloor + 1)
    /\ LoopOver =>
         /\ attempts # <<>>
         /\ EndsLoop(attempts[Len(attempts)])
         /\ ~relax_online => Len(attempts) = 1
    /\ no_online => attempts = <<>>

\* C10: the relax loop always terminates; its first attempt uses prefix
\* length max(1, min(max_query_terms, len(query))); with relax disabled it
\* makes exactly one attempt; with relax enabled each retry is one term
\* shorter than the attempt before it and follows an attempt with zero hits,
\* no attempt follows one that yielded hits or had reached the floor, no
\* retry is shorter than the floor, and there are at most
\* max(1, initial length - floor + 1) attempts.
C10_RelaxLoopTerminates ==
    /\ []LoopShape
    /\ (phase = "online") ~> (phase = "offline")

\* a relaxed search that came down from three terms to a floor of one
C10_Witness ==
    /\ phase = "offline"
    /\ relax_online
    /\ Len(attempts) = 3
    /\ attempts[3].qlen = LoopFloor
    /\ attempts[3].nhits = 0
    /\ ~attempts[3].failed

(***************************************************************************)
(* The probe after a failed online attempt, cli.py:61-62 and 204-261.      *)
(***************************************************************************)
SomeAttemptFailed == \E i \in 1..Len(attempts) : attempts[i].failed
DistinctIds(hs) ==
    \A i, j \in 1..Len(hs) : hs[i].a_number = hs[j].a_number => i = j

FailureDegrades ==
    SomeAttemptFailed =>
        /\ \A i \in 1..Len(attempts) : attempts[i].failed <=> i = Len(attempts)
        /\ phase \in {"offline", "merge", "done"}
        /\ online_hits = <<>>
        /\ online_err # None /\ online_err[1] # ""
        /\ phase \in {"merge", "done"} =>
              offline_hits = oeis_search_offline_stripped(terms, corpus, max_hits, max_scan)
        /\ phase = "done" =>
              /\ HitsOf(merged) \subseteq HitsOf(offline_hits)
              /\ IdsOf(merged) = IdsOf(offline_hits)
              /\ DistinctIds(offline_hits) => merged = offline_hits
              /\ filtered = KeptAtLeast(merged, IF min_match_len > 1 THEN min_match_len ELSE 1)
              /\ merged_hits = PyHead(sort_hits(filtered, rank), max_hits)
              /\ warning = online_err
              /\ exit_code = Some(0)

\* C11: a failure on any online attempt, the first or a retry, does not abort
\* the probe: no attempt follows it, the online path yields no hits and an
\* error string, the offline search still runs, its hits are merged,
\* filtered and ranked as they are, the failure is printed as a warning, and
\* the probe completes with exit code 0.
C11_FailureNeverAborts ==
    /\ []FailureDegrades
    /\ SomeAttemptFailed ~> (phase = "done" /\ exit_code = Some(0))

\* a probe whose relax retry failed and which still ranked offline hits
C11_Witness ==
    /\ phase = "done"
    /\ Len(attempts) >= 2
    /\ attempts[Len(attempts)].failed
    /\ merged_hits # <<>>
    /\ warning # None
    /\ exit_code = Some(0)

(***************************************************************************)
(* What the by-identifier lookup is to validate.                           *)
(***************************************************************************)
IsANumber(s) == Len(s) = 7 /\ s[1] = "A" /\ \A i \in 2..7 : IsDigit(s[i])

\* C12: the lookup reads the cache, sends a request or writes the cache only
\* for an identifier that, trimmed and upper-cased, is "A" followed by
\* exactly six digits; for every other identifier it raises before any of
\* the three happens.
C12_FetchValidatesId ==
    /\ io_log # <<>> => IsANumber(Strip(Upper(fetch_arg)))
    /\ (phase # "fetch_start" /\ ~IsANumber(Strip(Upper(fetch_arg)))) =>
          phase = "fetch_raised" /\ io_log = <<>>

(***************************************************************************)
(* What the offline scan is to examine and accept.                         *)
(***************************************************************************)
\* the lines with two columns and a well-formed identifier, in file order
WellFormedLines == SelectSeq(corpus, LAMBDA l : StrippedLine(l) # None)
HasNeedle(l) == IsSubstring(WrappedNeedle(terms), StrippedLine(l)[1].rest)
\* the identifiers of the lines among the first k well-formed ones that hold
\* the wrapped needle
AcceptedIds(k) ==
    LET acc == SelectSeq(SubSeq(WellFormedLines, 1, k), HasNeedle)
    IN  [i \in 1..Len(acc) |-> StrippedLine(acc[i])[1].aid]
ScanLimitsRespected ==
    /\ max_scan # None => scanned <= max_scan[1]
    /\ Len(hits) <= max_hits
ScanStopsAtFirstLimit ==
    \/ scanned = Len(WellFormedLines)
    \/ Len(hits) = max_hits
    \/ max_scan # None /\ scanned = max_scan[1]
ScanExaminesInOrder ==
    /\ scanned <= Len(WellFormedLines)
    /\ [i \in 1..Len(hits) |-> hits[i].a_number] = AcceptedIds(scanned)
    /\ offline_hits = PyHead(sort_hits(hits, "strict"), max_hits)
    /\ Len(offline_hits) <= max_hits

\* C13: the offline scan examines the well-formed lines in file order and
\* stops at the first of max_hits accepted hits, max_scan examined lines and
\* the end of the file; it examines at most max_scan lines and accepts at
\* most max_hits hits; other lines count toward neither limit; a line is
\* accepted only if it holds the wrapped needle; the result is the accepted
\* hits in strict rank order, at most max_hits of them.
C13_OfflineScanIsBounded ==
    phase = "offline_done" =>
        /\ ScanExaminesInOrder
        /\ ScanLimitsRespected
        /\ ScanStopsAtFirstLimit

(***************************************************************************)
(* What a mismatch report says about a hit the matcher aligned.            *)
(***************************************************************************)
RunAgrees ==
    \A j \in 0..(hit.match_len - 1) :
        hit.data_terms[hit.match_at[1] + j + 1] = terms[j + 1]
DivergesAtHayIndex ==
    IF details.hay_index >= Len(hit.data_terms)
    THEN details.expected = None
    ELSE /\ details.expected = Some(hit.data_terms[details.hay_index + 1])
         /\ details.expected # Some(details.got)

\* C14: for a non-empty query and a hit whose match_len and match_at are
\* best_subsequence_match's result on data_terms and that query, a report
\* of status "mismatch" names a true divergence: hay_index is past the end
\* of data_terms and expected is absent, or expected is data_terms[hay_index]
\* and differs from got = query[query_index]; and the match_len terms from
\* match_at on agree with the query's first match_len terms.
C14_MismatchIsTrueDivergence ==
    (phase = "match_explained" /\ terms # <<>> /\ details.status = "mismatch") =>
        /\ details.got = terms[details.query_index + 1]
        /\ DivergesAtHayIndex
        /\ RunAgrees

\* a run that starts after the first term of data_terms and ends before its
\* last, where the next terms differ
C14_Witness ==
    /\ phase = "match_explained"
    /\ details.status = "mismatch"
    /\ hit.match_at # None /\ hit.match_at[1] > 0
    /\ details.expected # None
    /\ details.expected # Some(details.got)

====
